---- MODULE Spec2Model ----
(***************************************************************************)
(* Model of the asbplayer extension's background script and of its native  *)
(* audio recorder client:                                                  *)
(*   - the runtime.onMessage listener of background.ts, which routes an    *)
(*     inbound command to a handler of the ordered `handlers` list;        *)
(*   - NativeAudioRecorder (native-audio-recorder.ts): sendMessage,        *)
(*     recordAudio and checkAvailability, with the two timers they arm;    *)
(*   - the rest of background.ts: the capture backend handed to the        *)
(*     handlers, the toolbar action, the keyboard commands, the context    *)
(*     menus and the response-header listener; and SidebarService          *)
(*     (sidebar-service.ts).                                               *)
(***************************************************************************)
EXTENDS Integers, Sequences, FiniteSets, TLC

(***************************************************************************)
(* Bounds of the model.                                                    *)
(***************************************************************************)
\* length of the handlers list the listener scans
MaxHandlers == 3
\* number of messages delivered to the listener in one behaviour
MaxMsgs == 2

(***************************************************************************)
(* Values.                                                                 *)
(***************************************************************************)
\* `handler.command === null`: the wildcard
NullCommand == "null"

\* request.sender values: two origins handlers listen to, one nobody accepts
Senders == {"foreground-video", "player-ui", "offscreen-capture-surface"}

\* request.message.command values
Commands == {"record-media", "sync"}

\* an inbound Command<Message>
Requests == [sender : Senders, command : Commands]

\* what handler.handle(request, sender, sendResponse) does: it returns true,
\* returns undefined, returns another truthy value (the promise of an async
\* function), or throws
HandleResults == {"true", "undefined", "promise", "throws"}

StringSender(t) == [type |-> "string", value |-> t, list |-> {}]

ObjectSender(S) == [type |-> "object", value |-> "", list |-> S]

\* The registrations (sender, command) the handler objects carry: a single
\* origin or a list of origins, and a command or the wildcard.  The handler
\* classes are imported by background.ts; the pool covers a specific handler,
\* catch-alls, and handlers that overlap.  Each handler object is distinct:
\* id is its identity.
HandlerPool ==
    { [id |-> 1, sender |-> StringSender("foreground-video"), command |-> "record-media"],
      [id |-> 2, sender |-> StringSender("foreground-video"), command |-> NullCommand],
      [id |-> 3, sender |-> ObjectSender({"foreground-video", "player-ui"}), command |-> "sync"],
      [id |-> 4, sender |-> StringSender("player-ui"), command |-> "record-media"],
      [id |-> 5, sender |-> ObjectSender({"player-ui"}), command |-> NullCommand] }

HandlerIds == { h.id : h \in HandlerPool }

\* the ordered lists of MaxHandlers distinct handler objects
HandlerLists ==
    { hs \in [1..MaxHandlers -> HandlerPool] :
        \A i, j \in 1..MaxHandlers : i # j => hs[i].id # hs[j].id }

VARIABLES
    handlers,       \* the ordered CommandHandler[] of background.ts
    delivered,      \* number of messages the listener has been called with
    last,           \* what the listener did with the latest message
    invocations,    \* arrival numbers of the messages whose handler was invoked, in invocation order
    pendingAsync,   \* arrival numbers of the messages whose reply channel is kept open
    _isAvailable,   \* NativeAudioRecorder._isAvailable: "null", "true" or "false"
    calls,          \* the checkAvailability / recordAudio calls made on the recorder, in call order
    now             \* the clock the timers run on, in ms

busVars == <<handlers, delivered, last, invocations, pendingAsync>>

recVars == <<_isAvailable, calls, now>>

VARIABLES
    isFirefoxBuild,     \* the build flag of build-flags
    isMobile,           \* the flag of device-detection/mobile
    backendsConstructed,\* number of capture backends constructed so far
    audioRecorder,      \* the backend held by the AudioRecorderService of the handlers
    startups,           \* number of runtime.onStartup events so far
    sidePanelOpen,      \* whether the browser shows the sidebar / side panel
    sidebarCalls,       \* number of SidebarService calls so far
    lastSidebarCall,    \* the latest SidebarService call and what it returned
    granted,            \* whether the extension holds the <all_urls> host permission
    hasHostPermission,  \* the variable of that name in background.ts
    containsPending,    \* the permissions.contains callback has not run yet
    popupSet,           \* action.setPopup has been called: a click opens the popup
    clicks,             \* number of clicks on the toolbar action so far
    lastClick           \* what the latest click did

platVars == <<isFirefoxBuild, isMobile, backendsConstructed, audioRecorder, startups,
              sidePanelOpen, sidebarCalls, lastSidebarCall,
              granted, hasHostPermission, containsPending, popupSet, clicks, lastClick>>

VARIABLES
    videoElements,      \* the video elements registered in the TabRegistry
    asbplayers,         \* the asbplayer instances registered in the TabRegistry
    keyPresses,         \* number of commands.onCommand events so far
    lastCommand,        \* the latest keyboard command and what was published for it
    tabUrl,             \* tab.url of the tabs the registered video elements live in
    menuClicks,         \* number of context-menu clicks so far
    lastMenuClick       \* the latest context-menu click and what was published for it

cmdVars == <<videoElements, asbplayers, keyPresses, lastCommand,
             tabUrl, menuClicks, lastMenuClick>>

VARIABLES
    contextMenusAPI,    \* whether browser.contextMenus or browser.menus exists
    setups,             \* the setupContextMenus runs so far, each with its position
    apiQueue,           \* the context-menu requests the browser has not processed yet
    menus,              \* the ids of the context menus that exist in the browser
    createErrors        \* the create requests the browser refused, as <<run, id>>

menuVars == <<contextMenusAPI, setups, apiQueue, menus, createErrors>>

VARIABLES
    handledResponses,   \* number of responses webRequest.onHeadersReceived has reported
    lastResponse        \* the latest of them and what the listener returned for it

hdrVars == <<handledResponses, lastResponse>>

bgVars == <<platVars, cmdVars, menuVars, hdrVars>>

vars == <<busVars, recVars, bgVars>>

\* background.ts 139: the backend the build flag selects
BackendFor(firefox) ==
    IF firefox THEN "FirefoxAudioRecorder" ELSE "OffscreenAudioRecorder"

NoSidebarCall == [op |-> "none", result |-> "none"]

NoClick == [effect |-> "none", held |-> FALSE]

\* the state after the background script of a build has run to its end
PlatformLoaded(firefox, mobile, holdsPermission) ==
    /\ isFirefoxBuild = firefox
    /\ isMobile = mobile
    /\ backendsConstructed = 1
    /\ audioRecorder = [kind |-> BackendFor(firefox), id |-> 1]
    /\ startups = 0
    /\ sidePanelOpen = FALSE
    /\ sidebarCalls = 0
    /\ lastSidebarCall = NoSidebarCall
    /\ granted = holdsPermission
    /\ hasHostPermission = TRUE
    /\ containsPending = firefox
    /\ popupSet = (~firefox /\ ~mobile)
    /\ clicks = 0
    /\ lastClick = NoClick

\* the value of `tabs` and of the published sets before any keyboard command
NoCommand ==
    [command |-> "", tabs |-> {}, toVideoElements |-> {}, toAsbplayers |-> {},
     toTabs |-> {}, error |-> <<>>]

\* the urls of the pages the tabs show
PageUrls == {"https://one.example/watch", "https://two.example/watch"}

\* the tabs of the model, each showing a page of its own
SomeTabUrls ==
    (1 :> "https://one.example/watch") @@ (2 :> "https://two.example/watch")

\* the value of `info` and of the published sets before any context-menu click
NoMenuClick ==
    [menuItemId |-> "", pageUrl |-> "", hasSrcUrl |-> FALSE, srcUrl |-> "",
     toTabs |-> {}, toVideoElements |-> {}]

\* no context-menu click yet
MenuClicksIdle ==
    /\ menuClicks = 0
    /\ lastMenuClick = NoMenuClick

\* an empty TabRegistry, no keyboard command and no context-menu click yet
CommandsIdle ==
    /\ videoElements = {}
    /\ asbplayers = {}
    /\ keyPresses = 0
    /\ lastCommand = NoCommand
    /\ tabUrl = SomeTabUrls
    /\ MenuClicksIdle

\* background.ts 246, 262: the ids of the two context menus
MenuIds == {"load-subtitles", "mine-subtitle"}

\* the context menus after the setupContextMenus run of the script load
MenusSettled ==
    /\ contextMenusAPI = TRUE
    /\ setups = <<"done">>
    /\ apiQueue = <<>>
    /\ menus = MenuIds
    /\ createErrors = {}

NoResponse == [hasHeaders |-> FALSE, responseHeaders |-> <<>>, blocking |-> FALSE, returned |-> <<>>]

\* no response reported to the onHeadersReceived listener yet
HeadersIdle ==
    /\ handledResponses = 0
    /\ lastResponse = NoResponse

\* what the platform specification leaves alone
PlatformRest == CommandsIdle /\ MenusSettled /\ HeadersIdle

\* the rest of the background script, loaded and left alone
BackgroundLoaded == PlatformLoaded(FALSE, FALSE, TRUE) /\ PlatformRest

NoDispatch == [seq |-> 0]

(***************************************************************************)
(* The listener (background.ts 190-215).                                   *)
(***************************************************************************)
\* lines 200-201: typeof handler.sender === 'string' && handler.sender === request.sender
\*             || typeof handler.sender === 'object' && handler.sender.includes(request.sender)
SenderAccepts_StringOnly(h, req) ==
    h.sender.type = "string" /\ h.sender.value = req.sender

SenderAccepts(h, req) ==
    \/ h.sender.type = "string" /\ h.sender.value = req.sender
    \/ h.sender.type = "object" /\ req.sender \in h.sender.list

\* line 203: handler.command === null || handler.command === request.message.command
CommandAccepts_NoWildcard(h, req) ==
    h.command = req.command

CommandAccepts(h, req) ==
    h.command = NullCommand \/ h.command = req.command

\* line 206: result === true
KeepsChannelOpen_Truthy(result) ==
    result \in {"true", "promise"}

KeepsChannelOpen(result) ==
    result = "true"

RECURSIVE Scan(_, _, _, _)

\* line 211: `break` after a handler that completed synchronously: the rest of
\* the list is not scanned
AfterSyncHandler_NoBreak(hs, i, req, result) ==
    Scan(hs, i + 1, req, result)

AfterSyncHandler(hs, i, req, result) ==
    [invoked |-> <<>>, results |-> <<>>, returned |-> "undefined"]

\* lines 198-214: the for loop from index i on.  result is what handle() does
\* with this request when it is called.  The value is the handlers invoked,
\* in order, what each did, and how the listener ended: it returned true,
\* returned undefined, or the exception of handle() left it (the loop has no
\* try/catch).
Scan(hs, i, req, result) ==
    IF i > Len(hs)
    THEN [invoked |-> <<>>, results |-> <<>>, returned |-> "undefined"]
    ELSE IF SenderAccepts(hs[i], req) /\ CommandAccepts(hs[i], req)
         THEN     IF result = "throws"
                  THEN [invoked |-> <<hs[i].id>>, results |-> <<result>>,
                        returned |-> "exception"]
                  ELSE IF KeepsChannelOpen(result)
                       THEN [invoked |-> <<hs[i].id>>, results |-> <<result>>,
                             returned |-> "true"]
                       ELSE LET rest == AfterSyncHandler(hs, i, req, result)
                            IN  [invoked |-> <<hs[i].id>> \o rest.invoked,
                                 results |-> <<result>> \o rest.results,
                                 returned |-> rest.returned]
         ELSE Scan(hs, i + 1, req, result)

\* the listener called with one request
Listener(hs, req, result) == Scan(hs, 1, req, result)

\* handle() runs inside the listener call (line 205), so the handlers start in
\* the order the listener is called
RecordInvocation_Lifo(log, seq, outcome) ==
    IF outcome.invoked = <<>> THEN log ELSE <<seq>> \o log

RecordInvocation(log, seq, outcome) ==
    IF outcome.invoked = <<>> THEN log ELSE Append(log, seq)

\* browser.runtime.onMessage fires: the listener runs to completion with req
OnMessage(req, result) ==
    /\ delivered < MaxMsgs
    /\ LET seq == delivered + 1
           outcome == Listener(handlers, req, result)
       IN  /\ delivered' = seq
           /\ last' = [seq |-> seq, req |-> req, invoked |-> outcome.invoked,
                       results |-> outcome.results, returned |-> outcome.returned]
           /\ invocations' = RecordInvocation(invocations, seq, outcome)
           /\ pendingAsync' = IF outcome.returned = "true"
                              THEN pendingAsync \cup {seq}
                              ELSE pendingAsync
    /\ UNCHANGED <<handlers, recVars, bgVars>>

\* a handler that returned true calls sendResponse later (or the transport
\* gives the channel up)
AsyncReply(m) ==
    /\ m \in pendingAsync
    /\ pendingAsync' = pendingAsync \ {m}
    /\ UNCHANGED <<handlers, delivered, last, invocations, recVars, bgVars>>

\* no message delivered yet
BusIdle ==
    /\ delivered = 0
    /\ last = NoDispatch
    /\ invocations = <<>>
    /\ pendingAsync = {}

\* new NativeAudioRecorder(): lines 23-24
RecorderConstructed ==
    /\ _isAvailable = "null"
    /\ calls = <<>>
    /\ now = 0

InitBus ==
    /\ handlers \in HandlerLists
    /\ BusIdle
    /\ RecorderConstructed
    /\ BackgroundLoaded

NextBus ==
    \/ \E req \in Requests : \E result \in HandleResults : OnMessage(req, result)
    \/ \E m \in 1..MaxMsgs : AsyncReply(m)

SpecBus == InitBus /\ [][NextBus]_vars

(***************************************************************************)
(* NativeAudioRecorder (native-audio-recorder.ts).                         *)
(***************************************************************************)
\* number of checkAvailability / recordAudio calls in one behaviour
MaxCalls == 2

\* number of checkAvailability calls in a behaviour of checkAvailability calls only
MaxChecks == 3

\* line 104: the connection's own timer
ConnectionTimeoutMs == 60000

\* line 63: the processing allowance added to the duration, and the cap
ProcessingAllowanceMs == 5000

RaceCapMs == 30000

\* durationMs values callers pass
Durations == {0, 28000}

\* browser.runtime.lastError.message / the exception of connectNative
PlatformErrors == {"host not found"}

NoError == <<>>

\* what the native host answers: {success: true, ...} or {success: false, error}
HostResponses ==
    { [success |-> TRUE, error |-> NoError],
      [success |-> FALSE, error |-> <<"host reported failure">>] }

\* a promise: pending, resolved with a value, or rejected with an Error
Pending == [state |-> "pending", success |-> FALSE, error |-> NoError]

Resolved(resp) == [state |-> "resolved", success |-> resp.success, error |-> resp.error]

Rejected(message) == [state |-> "rejected", success |-> FALSE, error |-> message]

\* lines 75-78: what the race timer resolves with
TimedOutResponse == [success |-> FALSE, error |-> <<"Recording timed out">>]

\* line 97
FailedToConnect(e) == <<"Failed to connect to native host: ", e>>

\* line 118
NativeHostError(e) == <<"Native host error: ", e>>

\* line 103
ResponseTimeout == <<"Native host response timeout">>

Min(a, b) == IF a <= b THEN a ELSE b

\* line 63: Math.min(durationMs + 5000, 30000)
EffectiveTimeout_Uncapped(durationMs) ==
    durationMs + ProcessingAllowanceMs

EffectiveTimeout_BeyondConnection(durationMs) ==
    durationMs + ConnectionTimeoutMs

EffectiveTimeout(durationMs) ==
    Min(durationMs + ProcessingAllowanceMs, RaceCapMs)

\* Promise.race (line 82) and promise settlement: the first settlement of a
\* promise stands, later ones are ignored
Settle_LastWins(promise, settlement) ==
    settlement

Settle(promise, settlement) ==
    IF promise.state = "pending" THEN settlement ELSE promise

\* line 53: the request ping() sends
PingRequest == [command |-> "ping", duration |-> 0, encodeMp3 |-> FALSE]

\* lines 65-69: the request recordAudio sends: duration is durationMs itself
RecordRequest_SendsTimeout(durationMs, encodeMp3) ==
    [command |-> "record", duration |-> EffectiveTimeout(durationMs), encodeMp3 |-> encodeMp3]

RecordRequest(durationMs, encodeMp3) ==
    [command |-> "record", duration |-> durationMs, encodeMp3 |-> encodeMp3]

\* lines 88-127, the executor of sendMessage: connectNative, the 60 s timer,
\* the two listeners, postMessage.  `connects` is whether connectNative
\* returned a port; otherwise it threw e.
OpenedConnection_NoTimer(message, connects, e) ==
    IF connects
    THEN [port |-> "open", closedBy |-> "", posted |-> <<message>>,
          connTimer |-> "none", send |-> Pending]
    ELSE [port |-> "none", closedBy |-> "", posted |-> <<>>, connTimer |-> "none",
          send |-> Rejected(FailedToConnect(e))]

OpenedConnection(message, connects, e) ==
    IF connects
    THEN [port |-> "open", closedBy |-> "", posted |-> <<message>>,
          connTimer |-> "armed", send |-> Pending]
    ELSE [port |-> "none", closedBy |-> "", posted |-> <<>>, connTimer |-> "none",
          send |-> Rejected(FailedToConnect(e))]

\* lines 61-83: recordAudio(durationMs, encodeMp3)
RecordAudio(durationMs, encodeMp3, connects, e) ==
    /\ LET timeout == EffectiveTimeout(durationMs)
           conn == OpenedConnection(RecordRequest(durationMs, encodeMp3), connects, e)
       IN  calls' = Append(calls,
                [kind |-> "recordAudio", durationMs |-> durationMs, startedAt |-> now,
                 port |-> conn.port, closedBy |-> conn.closedBy, posted |-> conn.posted,
                 connTimer |-> conn.connTimer, send |-> conn.send,
                 raceTimer |-> "armed", raceDelay |-> timeout,
                 outcome |-> Settle(Pending, conn.send)])
    /\ UNCHANGED <<_isAvailable, now, busVars, bgVars>>

\* lines 34-46: checkAvailability's continuation once its ping has settled
AvailabilityAfter_AnyResponse(send) ==
    IF send.state = "resolved" THEN "true" ELSE "false"

AvailabilityAfter(send) ==
    IF send.state = "resolved" /\ send.success THEN "true" ELSE "false"

\* lines 29-47: checkAvailability()
CheckAvailability(connects, e) ==
    /\ LET conn == IF _isAvailable # "null"
                   THEN [port |-> "none", closedBy |-> "", posted |-> <<>>,
                         connTimer |-> "none", send |-> Pending]
                   ELSE OpenedConnection(PingRequest, connects, e)
           settled == _isAvailable = "null" /\ conn.send.state # "pending"
           cache == IF settled THEN AvailabilityAfter(conn.send) ELSE _isAvailable
       IN  /\ _isAvailable' = cache
           /\ calls' = Append(calls,
                [kind |-> "checkAvailability", durationMs |-> 0, startedAt |-> now,
                 port |-> conn.port, closedBy |-> conn.closedBy, posted |-> conn.posted,
                 connTimer |-> conn.connTimer, send |-> conn.send,
                 raceTimer |-> "none", raceDelay |-> 0,
                 outcome |-> IF cache = "null" THEN Pending
                             ELSE Resolved([success |-> cache = "true", error |-> NoError])])
    /\ UNCHANGED <<now, busVars, bgVars>>

\* the sendMessage promise of call c settles with `settlement`: the awaiting
\* caller continues (recordAudio's race on line 82, checkAvailability's
\* lines 36-45)
Continue_Overwrites(c, call, settlement) ==
    [call EXCEPT !.send = settlement, !.outcome = settlement]

Continue(c, call, settlement) ==
    LET send == Settle(call.send, settlement)
    IN  IF call.kind = "recordAudio"
        THEN [call EXCEPT !.send = send, !.outcome = Settle(call.outcome, send)]
        ELSE [call EXCEPT !.send = send,
                          !.outcome = Settle(call.outcome,
                              Resolved([success |-> AvailabilityAfter(send) = "true",
                                        error |-> NoError]))]

CacheAfter(call, settlement) ==
    IF call.kind = "checkAvailability" /\ call.send.state = "pending"
    THEN AvailabilityAfter(settlement)
    ELSE _isAvailable

\* lines 107-109: port.onMessage clears the connection timer and disconnects
\* the port before it resolves
ResponseReceived_TimerKept(call) ==
    [call EXCEPT !.port = "disconnected", !.closedBy = "client"]

ResponseReceived(call) ==
    [call EXCEPT !.connTimer = "cleared", !.port = "disconnected", !.closedBy = "client"]

\* lines 106-111: port.onMessage: clearTimeout, disconnect, resolve(response)
HostResponds(c, response) ==
    /\ c \in 1..Len(calls)
    /\ calls[c].port = "open"
    /\ LET call == ResponseReceived(calls[c])
       IN  /\ calls' = [calls EXCEPT ![c] = Continue(c, call, Resolved(response))]
           /\ _isAvailable' = CacheAfter(calls[c], Resolved(response))
    /\ UNCHANGED <<now, busVars, bgVars>>

\* lines 113-123: port.onDisconnect with runtime.lastError set: reject
HostDisconnectsWithError(c, e) ==
    /\ c \in 1..Len(calls)
    /\ calls[c].port = "open"
    /\ LET call == [calls[c] EXCEPT !.connTimer = "cleared", !.port = "disconnected",
                                    !.closedBy = "hostError"]
       IN  /\ calls' = [calls EXCEPT ![c] = Continue(c, call, Rejected(NativeHostError(e)))]
           /\ _isAvailable' = CacheAfter(calls[c], Rejected(NativeHostError(e)))
    /\ UNCHANGED <<now, busVars, bgVars>>

\* lines 114-122: onDisconnect without lastError: only the timer is cleared;
\* the promise is neither resolved nor rejected
DisconnectedQuietly_Rejects(c, call) ==
    Continue(c, [call EXCEPT !.connTimer = "cleared", !.port = "disconnected",
                             !.closedBy = "host"],
             Rejected(NativeHostError("")))

DisconnectedQuietly(c, call) ==
    [call EXCEPT !.connTimer = "cleared", !.port = "disconnected", !.closedBy = "host"]

\* lines 113-123: port.onDisconnect without lastError
HostDisconnectsQuietly(c) ==
    /\ c \in 1..Len(calls)
    /\ calls[c].port = "open"
    /\ calls' = [calls EXCEPT ![c] = DisconnectedQuietly(c, calls[c])]
    /\ UNCHANGED <<_isAvailable, now, busVars, bgVars>>

\* lines 101-104: the connection timer fires: port.disconnect(), reject
ConnectionTimerFires(c) ==
    /\ c \in 1..Len(calls)
    /\ calls[c].connTimer = "armed"
    /\ now >= calls[c].startedAt + ConnectionTimeoutMs
    /\ LET call == [calls[c] EXCEPT !.connTimer = "fired", !.port = "disconnected",
                                    !.closedBy = "client"]
       IN  /\ calls' = [calls EXCEPT ![c] = Continue(c, call, Rejected(ResponseTimeout))]
           /\ _isAvailable' = CacheAfter(calls[c], Rejected(ResponseTimeout))
    /\ UNCHANGED <<now, busVars, bgVars>>

\* lines 72-80: the race timer fires: it resolves timeoutPromise and touches
\* neither the port nor the connection timer
RaceTimerEffect_Disconnects(call) ==
    [call EXCEPT !.raceTimer = "fired", !.port = "disconnected", !.closedBy = "client",
                 !.outcome = Settle(call.outcome, Resolved(TimedOutResponse))]

RaceTimerEffect(call) ==
    [call EXCEPT !.raceTimer = "fired",
                 !.outcome = Settle(call.outcome, Resolved(TimedOutResponse))]

RaceTimerFires(c) ==
    /\ c \in 1..Len(calls)
    /\ calls[c].raceTimer = "armed"
    /\ now >= calls[c].startedAt + calls[c].raceDelay
    /\ calls' = [calls EXCEPT ![c] = RaceTimerEffect(calls[c])]
    /\ UNCHANGED <<_isAvailable, now, busVars, bgVars>>

\* lines 133-135: the isAvailable getter
isAvailable == _isAvailable = "true"

\* the deadlines of the timers that are armed
Deadlines ==
    { calls[c].startedAt + calls[c].raceDelay :
        c \in { k \in 1..Len(calls) : calls[k].raceTimer = "armed" } }
    \cup
    { calls[c].startedAt + ConnectionTimeoutMs :
        c \in { k \in 1..Len(calls) : calls[k].connTimer = "armed" } }

\* time passes up to the next deadline; a timer that is due fires before
\* time passes on
Tick ==
    /\ Deadlines # {}
    /\ \A d \in Deadlines : d > now
    /\ now' = CHOOSE d \in Deadlines : \A x \in Deadlines : d <= x
    /\ UNCHANGED <<_isAvailable, calls, busVars, bgVars>>

\* the handlers list of the recorder's specification: the first MaxHandlers
\* handlers of the pool
SomeHandlers ==
    [k \in 1..MaxHandlers |-> CHOOSE h \in HandlerPool : h.id = k]

InitRecorder ==
    /\ handlers = SomeHandlers
    /\ BusIdle
    /\ RecorderConstructed
    /\ BackgroundLoaded

NextRecorder ==
    \/ /\ Len(calls) < MaxCalls
       /\ \E d \in Durations : \E mp3 \in BOOLEAN : \E connects \in BOOLEAN :
             \E e \in PlatformErrors : RecordAudio(d, mp3, connects, e)
    \/ /\ Len(calls) < MaxCalls
       /\ \E connects \in BOOLEAN : \E e \in PlatformErrors : CheckAvailability(connects, e)
    \/ \E c \in 1..MaxCalls : \E response \in HostResponses : HostResponds(c, response)
    \/ \E c \in 1..MaxCalls : \E e \in PlatformErrors : HostDisconnectsWithError(c, e)
    \/ \E c \in 1..MaxCalls : HostDisconnectsQuietly(c)
    \/ \E c \in 1..MaxCalls : ConnectionTimerFires(c)
    \/ \E c \in 1..MaxCalls : RaceTimerFires(c)
    \/ Tick

SpecRecorder == InitRecorder /\ [][NextRecorder]_vars

\* number of calls in a behaviour that follows each connection to its end
MaxConnections == 1

\* the recorder with the browser's timers: time passes, and a timer that is
\* due fires
NextConnections ==
    \/ /\ Len(calls) < MaxConnections
       /\ \E d \in Durations : \E mp3 \in BOOLEAN : \E connects \in BOOLEAN :
             \E e \in PlatformErrors : RecordAudio(d, mp3, connects, e)
    \/ /\ Len(calls) < MaxConnections
       /\ \E connects \in BOOLEAN : \E e \in PlatformErrors : CheckAvailability(connects, e)
    \/ \E c \in 1..MaxConnections : \E response \in HostResponses : HostResponds(c, response)
    \/ \E c \in 1..MaxConnections : \E e \in PlatformErrors : HostDisconnectsWithError(c, e)
    \/ \E c \in 1..MaxConnections : HostDisconnectsQuietly(c)
    \/ \E c \in 1..MaxConnections : ConnectionTimerFires(c)
    \/ \E c \in 1..MaxConnections : RaceTimerFires(c)
    \/ Tick

SpecConnections ==
    /\ InitRecorder
    /\ [][NextConnections]_vars
    /\ WF_vars(Tick)
    /\ \A c \in 1..MaxConnections :
          WF_vars(ConnectionTimerFires(c)) /\ WF_vars(RaceTimerFires(c))

\* the recorder used for availability checks only: checkAvailability calls
\* and the events of their pings
NextAvailability ==
    \/ /\ Len(calls) < MaxChecks
       /\ \E connects \in BOOLEAN : \E e \in PlatformErrors : CheckAvailability(connects, e)
    \/ \E c \in 1..MaxChecks : \E response \in HostResponses : HostResponds(c, response)
    \/ \E c \in 1..MaxChecks : \E e \in PlatformErrors : HostDisconnectsWithError(c, e)
    \/ \E c \in 1..MaxChecks : HostDisconnectsQuietly(c)
    \/ \E c \in 1..MaxChecks : ConnectionTimerFires(c)
    \/ Tick

SpecAvailability == InitRecorder /\ [][NextAvailability]_vars

(***************************************************************************)
(* The platform-dependent parts of the background script: the capture      *)
(* backend handed to the handlers, SidebarService and the toolbar action.  *)
(***************************************************************************)
\* number of runtime.onStartup events in one behaviour
MaxStartups == 2
\* number of SidebarService calls in one behaviour
MaxSidebarCalls == 2
\* number of clicks on the toolbar action in one behaviour
MaxClicks == 2

\* background.ts 85-95: what startListener leaves in the AudioRecorderService:
\* the backend it constructs at line 94 is assigned to nothing
StartListenerBackend_Replaces(current, fresh) == fresh

StartListenerBackend(current, fresh) == current

\* background.ts 85-95: startListener, the runtime.onStartup listener
StartListener ==
    /\ startups < MaxStartups
    /\ startups' = startups + 1
    /\ backendsConstructed' = backendsConstructed + 1
    /\ audioRecorder' = StartListenerBackend(audioRecorder,
                            [kind |-> BackendFor(isFirefoxBuild), id |-> backendsConstructed + 1])
    /\ UNCHANGED <<isFirefoxBuild, isMobile, sidePanelOpen, sidebarCalls, lastSidebarCall,
                   granted, hasHostPermission, containsPending, popupSet, clicks, lastClick>>
    /\ UNCHANGED <<busVars, recVars, cmdVars, menuVars, hdrVars>>

\* the parts of the platform state SidebarService never touches
SidebarFrame ==
    /\ sidebarCalls < MaxSidebarCalls
    /\ sidebarCalls' = sidebarCalls + 1
    /\ UNCHANGED <<isFirefoxBuild, isMobile, backendsConstructed, audioRecorder, startups,
                   granted, hasHostPermission, containsPending, popupSet, clicks, lastClick>>
    /\ UNCHANGED <<busVars, recVars, cmdVars, menuVars, hdrVars>>

\* sidebar-service.ts 13-23: open(); the browser's call opens the panel or rejects
SidebarOpen(succeeds) ==
    /\ SidebarFrame
    /\ sidePanelOpen' = (succeeds \/ sidePanelOpen)
    /\ lastSidebarCall' = [op |-> "open", result |-> IF succeeds THEN "void" ELSE "rejects"]

\* sidebar-service.ts 30-40: the panel after close()
PanelAfterClose(firefox, open) == IF firefox THEN FALSE ELSE open

\* sidebar-service.ts 30-40: close()
SidebarClose ==
    /\ SidebarFrame
    /\ sidePanelOpen' = PanelAfterClose(isFirefoxBuild, sidePanelOpen)
    /\ lastSidebarCall' = [op |-> "close", result |-> "void"]

\* sidebar-service.ts 47-56: toggle()
SidebarToggle ==
    /\ SidebarFrame
    /\ sidePanelOpen' = IF isFirefoxBuild THEN ~sidePanelOpen ELSE sidePanelOpen
    /\ lastSidebarCall' = [op |-> "toggle", result |-> IF isFirefoxBuild THEN "void" ELSE "rejects"]

\* sidebar-service.ts 63-72: what isOpen() returns
IsOpenResult_Tracked(firefox, open) == IF open THEN "true" ELSE "false"

IsOpenResult(firefox, open) ==
    IF firefox THEN (IF open THEN "true" ELSE "false") ELSE "false"

\* sidebar-service.ts 63-72: isOpen()
SidebarIsOpen ==
    /\ SidebarFrame
    /\ sidePanelOpen' = sidePanelOpen
    /\ lastSidebarCall' = [op |-> "isOpen", result |-> IsOpenResult(isFirefoxBuild, sidePanelOpen)]

\* background.ts 557-565: the callback of permissions.contains
ContainsCallback ==
    /\ isFirefoxBuild
    /\ containsPending
    /\ containsPending' = FALSE
    /\ hasHostPermission' = granted
    /\ popupSet' = (granted /\ ~isMobile)
    /\ UNCHANGED <<isFirefoxBuild, isMobile, backendsConstructed, audioRecorder, startups,
                   sidePanelOpen, sidebarCalls, lastSidebarCall, granted, clicks, lastClick>>
    /\ UNCHANGED <<busVars, recVars, cmdVars, menuVars, hdrVars>>

\* background.ts 567-582 and 590: what the action.onClicked listener does
ClickEffect(firefox, hasPermission, obtained) ==
    IF ~firefox \/ hasPermission THEN "defaultAction"
    ELSE IF obtained = "granted" THEN "requestedAndReloaded"
    ELSE "requested"

\* a click on the toolbar action: the browser opens the popup when one is set,
\* and calls the action.onClicked listener (background.ts 567-582, 590)
\* otherwise; runtime.reload() at line 576 loads the background script anew
ActionClicked(obtained) ==
    /\ clicks < MaxClicks
    /\ clicks' = clicks + 1
    /\ LET effect == IF popupSet THEN "popup"
                     ELSE ClickEffect(isFirefoxBuild, hasHostPermission, obtained)
           reload == effect = "requestedAndReloaded"
       IN  /\ lastClick' = [effect |-> effect, held |-> granted]
           /\ granted' = (granted \/ reload)
           /\ hasHostPermission' = (hasHostPermission \/ reload)
           /\ containsPending' = (containsPending \/ reload)
           /\ backendsConstructed' = IF reload THEN 1 ELSE backendsConstructed
           /\ audioRecorder' = IF reload THEN [kind |-> BackendFor(isFirefoxBuild), id |-> 1]
                               ELSE audioRecorder
    /\ UNCHANGED <<isFirefoxBuild, isMobile, startups, sidePanelOpen, sidebarCalls,
                   lastSidebarCall, popupSet>>
    /\ UNCHANGED <<busVars, recVars, cmdVars, menuVars, hdrVars>>

InitPlatform ==
    /\ handlers = SomeHandlers
    /\ BusIdle
    /\ RecorderConstructed
    /\ \E firefox \in BOOLEAN : \E mobile \in BOOLEAN : \E holds \in BOOLEAN :
          PlatformLoaded(firefox, mobile, holds)
    /\ PlatformRest

NextPlatform ==
    \/ StartListener
    \/ \E succeeds \in BOOLEAN : SidebarOpen(succeeds)
    \/ SidebarClose
    \/ SidebarToggle
    \/ SidebarIsOpen
    \/ ContainsCallback
    \/ \E obtained \in {"granted", "denied", "throws"} : ActionClicked(obtained)

SpecPlatform == InitPlatform /\ [][NextPlatform]_vars

(***************************************************************************)
(* The keyboard commands: the commands.onCommand listener of background.ts *)
(* and the TabRegistry operations it publishes through.                    *)
(***************************************************************************)
\* number of commands.onCommand events in one behaviour
MaxKeyPresses == 2

\* tab.id of a tab that has none, and asbplayer.tab of an instance with no tab
NoTab == 0

\* ids of the tabs the registry's peers live in
TabIds == {1, 2}

\* the video elements that may be registered: two in tab 1, two in tab 2,
\* one of them playing the same source as an element of tab 1
VideoElementPool ==
    {[src |-> "a.mp4", tab |-> 1], [src |-> "b.mp4", tab |-> 1],
     [src |-> "c.mp4", tab |-> 2], [src |-> "a.mp4", tab |-> 2]}

\* the asbplayer instances that may be registered: bound to a tab, bound to
\* no tab, and two side panel instances, without and with a tab
AsbplayerPool ==
    {[id |-> "p1", tab |-> 1, sidePanel |-> FALSE],
     [id |-> "p2", tab |-> NoTab, sidePanel |-> FALSE],
     [id |-> "p3", tab |-> NoTab, sidePanel |-> TRUE],
     [id |-> "p4", tab |-> 2, sidePanel |-> TRUE]}

\* the command names the browser may report, the last one outside the manifest
KeyCommands ==
    {"copy-subtitle", "update-last-card", "export-card", "copy-subtitle-with-dialog",
     "toggle-video-select", "take-screenshot", "toggle-recording", "open-settings"}

\* background.ts 374-377: the commands that are published as copy-subtitle
CopySubtitleFamily ==
    {"copy-subtitle", "update-last-card", "export-card", "copy-subtitle-with-dialog"}

\* background.ts 373-503: the commands whose case publishes through the registry
PublishedCommands == CopySubtitleFamily \cup {"take-screenshot", "toggle-recording"}

\* background.ts 507-520
postMineActionFromCommand_AlwaysNone(command) == "none"

postMineActionFromCommand(command) ==
    CASE command = "copy-subtitle" -> "none"
      [] command = "copy-subtitle-with-dialog" -> "showAnkiDialog"
      [] command = "update-last-card" -> "updateLastCard"
      [] command = "export-card" -> "exportCard"

\* background.ts 393-398, 442-446, 475-479: the message built for a command
MessageFor(command) ==
    IF command \in CopySubtitleFamily
    THEN [command |-> "copy-subtitle", postMineAction |-> postMineActionFromCommand(command)]
    ELSE [command |-> command, postMineAction |-> ""]

\* background.ts 388, 438, 471: tabs.find((t) => t.id === videoElement.tab.id)
TabFound_Always(tabs, tabId) == TRUE

TabFound(tabs, tabId) == tabId \in tabs

\* background.ts 381-403, 437-450, 470-483: the command factory for a video
\* element; the empty set is the factory's `undefined`
VideoElementCommand(command, tabs, videoElement) ==
    IF ~TabFound(tabs, videoElement.tab)
    THEN {}
    ELSE {[sender |-> "asbplayer-extension-to-video", message |-> MessageFor(command),
           src |-> videoElement.src]}

\* background.ts 359-371
validAsbplayer_TabOnly(tabs, asbplayer) ==
    asbplayer.tab = NoTab \/ TabFound(tabs, asbplayer.tab)

validAsbplayer(tabs, asbplayer) ==
    IF asbplayer.sidePanel THEN FALSE
    ELSE IF asbplayer.tab # NoTab /\ ~TabFound(tabs, asbplayer.tab) THEN FALSE
    ELSE TRUE

\* background.ts 405-421, 452-467, 484-499: the command factory for an asbplayer
AsbplayerCommand(command, tabs, asbplayer) ==
    IF ~validAsbplayer(tabs, asbplayer)
    THEN {}
    ELSE {[sender |-> "asbplayer-extension-to-player", message |-> MessageFor(command),
           asbplayerId |-> asbplayer.id]}

\* TabRegistry.publishCommandToVideoElements: every registered video element
\* for which the factory returns a command is sent that command
publishCommandToVideoElements(command, tabs) ==
    UNION { { [to |-> ve, command |-> c] : c \in VideoElementCommand(command, tabs, ve) } :
              ve \in videoElements }

\* TabRegistry.publishCommandToAsbplayers: the same for the asbplayer instances
publishCommandToAsbplayers(command, tabs) ==
    UNION { { [to |-> a, command |-> c] : c \in AsbplayerCommand(command, tabs, a) } :
              a \in asbplayers }

\* background.ts 501-502: the default case of the switch throws
ErrorOf_Silent(command) == <<>>

ErrorOf(command) ==
    IF command \in PublishedCommands \cup {"toggle-video-select"}
    THEN <<>>
    ELSE <<"Unknown command ", command>>

\* background.ts 357-505: the commands.onCommand listener with the callback
\* of its tabs.query; `tabs` are the ids of the tabs the query reports
OnCommand(command, tabs) ==
    /\ keyPresses < MaxKeyPresses
    /\ keyPresses' = keyPresses + 1
    /\ lastCommand' =
          [command |-> command,
           tabs |-> tabs,
           toVideoElements |-> IF command \in PublishedCommands
                               THEN publishCommandToVideoElements(command, tabs) ELSE {},
           toAsbplayers |-> IF command \in PublishedCommands
                            THEN publishCommandToAsbplayers(command, tabs) ELSE {},
           toTabs |-> IF command = "toggle-video-select" THEN tabs \ {NoTab} ELSE {},
           error |-> ErrorOf(command)]
    /\ UNCHANGED <<videoElements, asbplayers, tabUrl, menuClicks, lastMenuClick>>
    /\ UNCHANGED <<busVars, recVars, platVars, menuVars, hdrVars>>

InitCommands ==
    /\ handlers = SomeHandlers
    /\ BusIdle
    /\ RecorderConstructed
    /\ PlatformLoaded(FALSE, FALSE, TRUE)
    /\ MenusSettled
    /\ HeadersIdle
    /\ videoElements \in SUBSET VideoElementPool
    /\ asbplayers \in SUBSET AsbplayerPool
    /\ keyPresses = 0
    /\ lastCommand = NoCommand
    /\ tabUrl = SomeTabUrls
    /\ MenuClicksIdle

NextCommands ==
    \E command \in KeyCommands : \E tabs \in SUBSET (TabIds \cup {NoTab}) : OnCommand(command, tabs)

SpecCommands == InitCommands /\ [][NextCommands]_vars

(***************************************************************************)
(* The context-menu clicks: the contextMenus.onClicked listener of         *)
(* background.ts and the TabRegistry operations it publishes through.      *)
(***************************************************************************)
\* number of context-menu clicks in one behaviour
MaxMenuClicks == 2

\* info.menuItemId: the two menus of the extension and one that is not its own
MenuItemIds == MenuIds \cup {"other-item"}

\* info.pageUrl: the pages of the tabs and a page no tab of the registry shows
ClickPageUrls == PageUrls \cup {"https://three.example/"}

\* info.srcUrl when it is defined
ClickSrcUrls == {"a.mp4", "c.mp4", "z.mp4"}

\* the info objects of a click; srcUrl is "" when hasSrcUrl is FALSE
ClickInfos ==
    { [menuItemId |-> id, pageUrl |-> page, hasSrcUrl |-> TRUE, srcUrl |-> src] :
        id \in MenuItemIds, page \in ClickPageUrls, src \in ClickSrcUrls }
    \cup
    { [menuItemId |-> id, pageUrl |-> page, hasSrcUrl |-> FALSE, srcUrl |-> ""] :
        id \in MenuItemIds, page \in ClickPageUrls }

\* background.ts 302-316: the command factory of load-subtitles for a tab
LoadSubtitlesCommand(info, tab) ==
    IF info.pageUrl # tabUrl[tab]
    THEN {}
    ELSE {[sender |-> "asbplayer-extension-to-video",
           message |-> [command |-> "toggle-video-select", postMineAction |-> ""],
           src |-> ""]}

\* background.ts 320-351: the command factory of mine-subtitle for a video element
MineSubtitleCommand_PageOnly(info, videoElement) ==
    IF info.pageUrl # tabUrl[videoElement.tab]
    THEN {}
    ELSE {[sender |-> "asbplayer-extension-to-video",
           message |-> [command |-> "copy-subtitle", postMineAction |-> "showAnkiDialog"],
           src |-> videoElement.src]}

MineSubtitleCommand(info, videoElement) ==
    IF info.hasSrcUrl /\ videoElement.src # info.srcUrl
    THEN {}
    ELSE IF ~info.hasSrcUrl /\ info.pageUrl # tabUrl[videoElement.tab]
    THEN {}
    ELSE {[sender |-> "asbplayer-extension-to-video",
           message |-> [command |-> "copy-subtitle", postMineAction |-> "showAnkiDialog"],
           src |-> videoElement.src]}

\* TabRegistry.publishCommandToVideoElementTabs: every tab that holds a
\* registered video element and for which the factory returns a command is
\* sent that command
publishCommandToVideoElementTabs(info) ==
    UNION { { [to |-> tab, command |-> c] : c \in LoadSubtitlesCommand(info, tab) } :
              tab \in { ve.tab : ve \in videoElements } }

\* TabRegistry.publishCommandToVideoElements with the factory of mine-subtitle
publishMineSubtitle(info) ==
    UNION { { [to |-> ve, command |-> c] : c \in MineSubtitleCommand(info, ve) } :
              ve \in videoElements }

\* background.ts 290-355: the contextMenus.onClicked listener
OnMenuClicked(info) ==
    /\ contextMenusAPI
    /\ menuClicks < MaxMenuClicks
    /\ menuClicks' = menuClicks + 1
    /\ lastMenuClick' =
          [menuItemId |-> info.menuItemId, pageUrl |-> info.pageUrl,
           hasSrcUrl |-> info.hasSrcUrl, srcUrl |-> info.srcUrl,
           toTabs |-> IF info.menuItemId = "load-subtitles"
                      THEN publishCommandToVideoElementTabs(info) ELSE {},
           toVideoElements |-> IF info.menuItemId = "mine-subtitle"
                               THEN publishMineSubtitle(info) ELSE {}]
    /\ UNCHANGED <<videoElements, asbplayers, keyPresses, lastCommand, tabUrl>>
    /\ UNCHANGED <<busVars, recVars, platVars, menuVars, hdrVars>>

InitMenuClicks ==
    /\ handlers = SomeHandlers
    /\ BusIdle
    /\ RecorderConstructed
    /\ PlatformLoaded(FALSE, FALSE, TRUE)
    /\ MenusSettled
    /\ HeadersIdle
    /\ videoElements \in SUBSET VideoElementPool
    /\ asbplayers = {}
    /\ keyPresses = 0
    /\ lastCommand = NoCommand
    /\ tabUrl \in [TabIds -> PageUrls]
    /\ MenuClicksIdle

NextMenuClicks ==
    \E info \in ClickInfos : OnMenuClicked(info)

SpecMenuClicks == InitMenuClicks /\ [][NextMenuClicks]_vars

(***************************************************************************)
(* The context menus: setupContextMenus of background.ts and the browser   *)
(* that processes its requests in the order they were sent.                *)
(***************************************************************************)
\* number of setupContextMenus runs in one behaviour: the one of the script
\* load and one per onInstalled event
MaxSetups == 3

RemoveAllRequest(run) == [op |-> "removeAll", id |-> "", run |-> run]

CreateRequest(run, id) == [op |-> "create", id |-> id, run |-> run]

\* background.ts 225-236: setupContextMenus up to its await: without the API
\* it returns, with it it sends removeAll and waits for the answer
SetupStarted(run) ==
    IF contextMenusAPI
    THEN [position |-> "removing", queued |-> <<RemoveAllRequest(run)>>]
    ELSE [position |-> "done", queued |-> <<>>]

\* background.ts 285-288: an onInstalled event starts another run
SetupContextMenus ==
    /\ Len(setups) < MaxSetups
    /\ LET started == SetupStarted(Len(setups) + 1)
       IN  /\ setups' = Append(setups, started.position)
           /\ apiQueue' = apiQueue \o started.queued
    /\ UNCHANGED <<contextMenusAPI, menus, createErrors>>
    /\ UNCHANGED <<busVars, recVars, platVars, cmdVars, hdrVars>>

\* the browser processes the oldest request: removeAll removes every menu, a
\* create adds its menu unless one with that id exists, which it reports
\* through runtime.lastError (background.ts 250-256, 266-272)
BrowserProcesses ==
    /\ apiQueue # <<>>
    /\ LET request == Head(apiQueue)
       IN  /\ apiQueue' = Tail(apiQueue)
           /\ menus' = IF request.op = "removeAll" THEN {} ELSE menus \cup {request.id}
           /\ createErrors' = IF request.op = "create" /\ request.id \in menus
                              THEN createErrors \cup {<<request.run, request.id>>}
                              ELSE createErrors
           /\ setups' = IF request.op = "removeAll"
                        THEN [setups EXCEPT ![request.run] = "removed"]
                        ELSE setups
    /\ UNCHANGED contextMenusAPI
    /\ UNCHANGED <<busVars, recVars, platVars, cmdVars, hdrVars>>

\* background.ts 236-275: the run continues after its await: it sends the
\* two create requests
RemoveAllResolved(run) ==
    /\ run \in 1..Len(setups)
    /\ setups[run] = "removed"
    /\ setups' = [setups EXCEPT ![run] = "done"]
    /\ apiQueue' = apiQueue \o <<CreateRequest(run, "load-subtitles"),
                                 CreateRequest(run, "mine-subtitle")>>
    /\ UNCHANGED <<contextMenusAPI, menus, createErrors>>
    /\ UNCHANGED <<busVars, recVars, platVars, cmdVars, hdrVars>>

\* the background script has run to its end: setupContextMenus was called
\* once (line 282); the browser may still hold the menus of an earlier load
InitMenus ==
    /\ handlers = SomeHandlers
    /\ BusIdle
    /\ RecorderConstructed
    /\ PlatformLoaded(FALSE, FALSE, TRUE)
    /\ CommandsIdle
    /\ HeadersIdle
    /\ contextMenusAPI \in BOOLEAN
    /\ setups = <<SetupStarted(1).position>>
    /\ apiQueue = SetupStarted(1).queued
    /\ menus \in {{}, MenuIds}
    /\ createErrors = {}

NextMenus ==
    \/ SetupContextMenus
    \/ BrowserProcesses
    \/ \E run \in 1..MaxSetups : RemoveAllResolved(run)

SpecMenus == InitMenus /\ [][NextMenus]_vars

(***************************************************************************)
(* The webRequest.onHeadersReceived listener of the Firefox build.         *)
(***************************************************************************)
\* number of responses reported to the listener in one behaviour
MaxResponses == 2
\* number of headers of a response
MaxHeaders == 2

\* header.value is a string; here the sequence of the pieces it is made of
HeaderPool ==
    {[name |-> "Content-Security-Policy", value |-> <<"default-src 'self'">>],
     [name |-> "content-security-policy", value |-> <<"script-src 'none'">>],
     [name |-> "CONTENT-SECURITY-POLICY", value |-> <<"default-src 'self'">>],
     [name |-> "Content-Type", value |-> <<"text/html">>],
     [name |-> "content-type", value |-> <<"text/html">>]}

\* details.responseHeaders when it is defined
HeaderLists == UNION { [1..n -> HeaderPool] : n \in 0..MaxHeaders }

\* line 608: header.name.toLowerCase()
toLowerCase(name) ==
    CASE name \in {"Content-Security-Policy", "content-security-policy",
                   "CONTENT-SECURITY-POLICY"} -> "content-security-policy"
      [] name \in {"Content-Type", "content-type"} -> "content-type"

\* line 610: what is appended: ` ; script-src moz-extension://${browser.runtime.id}`
ExtensionScriptSrc == " ; script-src moz-extension://<runtime.id>"

\* lines 609-610: the local variable of the loop body
cspValue(header) == header.value \o <<ExtensionScriptSrc>>

\* lines 607-612: the loop body builds cspValue(header) and assigns it to
\* nothing: the header of responseHeaders is left as it was
HeaderAfterLoop(header) == header

\* background.ts 599-618: the onHeadersReceived listener
OnHeadersReceived(hasHeaders, responseHeaders) ==
    /\ isFirefoxBuild
    /\ handledResponses < MaxResponses
    /\ handledResponses' = handledResponses + 1
    /\ lastResponse' =
          IF ~hasHeaders
          THEN [hasHeaders |-> FALSE, responseHeaders |-> <<>>, blocking |-> FALSE,
                returned |-> <<>>]
          ELSE [hasHeaders |-> TRUE, responseHeaders |-> responseHeaders, blocking |-> TRUE,
                returned |-> [i \in DOMAIN responseHeaders |-> HeaderAfterLoop(responseHeaders[i])]]
    /\ UNCHANGED <<busVars, recVars, platVars, cmdVars, menuVars>>

InitHeaders ==
    /\ handlers = SomeHandlers
    /\ BusIdle
    /\ RecorderConstructed
    /\ \E holds \in BOOLEAN : PlatformLoaded(TRUE, FALSE, holds)
    /\ CommandsIdle
    /\ MenusSettled
    /\ HeadersIdle

NextHeaders ==
    \/ OnHeadersReceived(FALSE, <<>>)
    \/ \E responseHeaders \in HeaderLists : OnHeadersReceived(TRUE, responseHeaders)

SpecHeaders == InitHeaders /\ [][NextHeaders]_vars

Init == InitBus

Next == NextBus \/ NextRecorder \/ NextPlatform \/ NextCommands \/ NextMenuClicks \/ NextMenus \/ NextHeaders

Spec == Init /\ [][Next]_vars

(***************************************************************************)
(* The routing claims, stated over what the listener did with the latest   *)
(* message (every delivered message is the latest one in some state).      *)
(***************************************************************************)
\* the origins a registration accepts, as a set
AcceptedOrigins(h) ==
    IF h.sender.type = "string" THEN {h.sender.value} ELSE h.sender.list

\* a registration matches a message: its origins contain the message's
\* sender and its command is the wildcard or the message's command
RegistrationMatches(h, req) ==
    /\ req.sender \in AcceptedOrigins(h)
    /\ (h.command = NullCommand \/ h.command = req.command)

Dispatched == last.seq # 0

\* C1: for every message the listener invokes at most one handler, and that
\* handler is the first registration of the list that matches the message,
\* whatever the handler returns.
C1_FirstMatchOnly ==
    Dispatched =>
        /\ Len(last.invoked) <= 1
        /\ Len(last.invoked) = 1 =>
              \E i \in 1..Len(handlers) :
                  /\ handlers[i].id = last.invoked[1]
                  /\ RegistrationMatches(handlers[i], last.req)
                  /\ \A j \in 1..(i - 1) : ~RegistrationMatches(handlers[j], last.req)

\* a handler completed synchronously although a later registration matches too
C1_Witness ==
    /\ Dispatched
    /\ last.results = <<"undefined">>
    /\ \E i, j \in 1..Len(handlers) :
          /\ i < j
          /\ handlers[i].id = last.invoked[1]
          /\ RegistrationMatches(handlers[j], last.req)

\* C2: a handler is invoked iff some registration matches the message; with
\* no match nothing is invoked and the listener returns undefined.
C2_InvokedIffMatch ==
    Dispatched =>
        LET matched == \E i \in 1..Len(handlers) : RegistrationMatches(handlers[i], last.req)
        IN  /\ (last.invoked # <<>>) <=> matched
            /\ ~matched => last.returned = "undefined"

\* a message whose sender a registration accepts, but whose command none does
C2_Witness ==
    /\ Dispatched
    /\ last.invoked = <<>>
    /\ last.returned = "undefined"
    /\ \E i \in 1..Len(handlers) : last.req.sender \in AcceptedOrigins(handlers[i])

\* C3: an exception raised inside handle() never propagates out of the
\* listener.
C3_ExceptionNeverPropagates ==
    Dispatched => last.returned # "exception"

\* C4: the listener returns true (keeps the reply channel open) iff the one
\* handler it invoked returned true.
C4_ChannelOpenIffTrue ==
    Dispatched =>
        (last.returned = "true" <=> (Len(last.invoked) = 1 /\ last.results[1] = "true"))

\* a handler returned a truthy value other than true: the channel is not kept
C4_Witness ==
    /\ Dispatched
    /\ last.results = <<"promise">>
    /\ last.returned = "undefined"

Overlap(h1, h2) ==
    \E req \in Requests : RegistrationMatches(h1, req) /\ RegistrationMatches(h2, req)

\* the list with the entries at i and j swapped
Swap(hs, i, j) ==
    [k \in 1..Len(hs) |-> IF k = i THEN hs[j] ELSE IF k = j THEN hs[i] ELSE hs[k]]

RecordCalls == { c \in 1..Len(calls) : calls[c].kind = "recordAudio" }

\* C7: when the race timer of a recordAudio call fires before any response
\* or transport error, the caller gets {success: false, error: "Recording
\* timed out"} at that moment; the timer leaves the port and the connection
\* timer alone, and the port is closed only by a response, a disconnect or
\* the connection timer.
C7_RaceTimeout ==
    [][\A c \in RecordCalls :
          /\ (calls[c].raceTimer = "armed" /\ calls'[c].raceTimer = "fired") =>
                /\ now = calls[c].startedAt + Min(calls[c].durationMs + 5000, 30000)
                /\ calls[c].outcome.state = "pending" =>
                      calls'[c].outcome = Resolved(TimedOutResponse)
                /\ calls'[c].port = calls[c].port
                /\ calls'[c].connTimer = calls[c].connTimer
          /\ (calls[c].port = "open" /\ calls'[c].port # "open") =>
                /\ calls[c].connTimer = "armed"
                /\ calls'[c].connTimer \in {"cleared", "fired"}]_vars

\* a 28000 ms recording timed out at 30000 ms and its connection is still open
C7_Witness ==
    \E c \in RecordCalls :
        /\ calls[c].durationMs = 28000
        /\ calls[c].outcome = Resolved(TimedOutResponse)
        /\ now = calls[c].startedAt + 30000
        /\ calls[c].port = "open"
        /\ calls[c].connTimer = "armed"

ProbeDurations == {0, 1, 1000, 20000, 24999, 25000, 25001, 28000, 30000, 60000, 100000}

\* C8: the race timer is set to min(durationMs + 5000, 30000): durationMs +
\* 5000 when durationMs <= 25000, and 30000 otherwise.
C8_EffectiveTimeout ==
    /\ \A c \in RecordCalls :
          calls[c].raceDelay = IF calls[c].durationMs <= 25000
                               THEN calls[c].durationMs + 5000
                               ELSE 30000
    /\ \A d \in ProbeDurations :
          EffectiveTimeout(d) = IF d <= 25000 THEN d + 5000 ELSE 30000

\* recordAudio(28000) armed its race timer with 30000
C8_Witness ==
    \E c \in RecordCalls :
        /\ calls[c].durationMs = 28000
        /\ calls[c].raceTimer = "armed"
        /\ calls[c].raceDelay = 30000

\* C9: recordAudio never rejects; every backend failure is a returned result
\* with success = false.
C9_NeverRejects ==
    \A c \in RecordCalls : calls[c].outcome.state # "rejected"

TransportErrors ==
    { FailedToConnect(e) : e \in PlatformErrors } \cup { NativeHostError(e) : e \in PlatformErrors }

\* C10: a failure to connect, or a disconnect with a platform error, that
\* happens before the race timer fires is the outcome of the call, with the
\* platform's message, and stays the outcome when the race timer fires later.
C10_TransportFailureWins ==
    [][\A c \in { k \in 1..Len(calls') : calls'[k].kind = "recordAudio" } :
          LET new == calls'[c]
              failedNow == /\ new.send.state = "rejected"
                           /\ new.send.error \in TransportErrors
                           /\ (c > Len(calls) \/ calls[c].send.state = "pending")
          IN  /\ (failedNow /\ new.raceTimer = "armed") =>
                    /\ new.outcome = new.send
                    /\ new.outcome.error # TimedOutResponse.error
              /\ (c <= Len(calls) /\ calls[c].outcome.state = "rejected") =>
                    new.outcome = calls[c].outcome]_vars

\* the host disconnected with an error, the call failed with it, and the race
\* timer fired afterwards
C10_Witness ==
    \E c \in RecordCalls : \E e \in PlatformErrors :
        /\ calls[c].outcome = Rejected(NativeHostError(e))
        /\ calls[c].raceTimer = "fired"

(***************************************************************************)
(* The availability and connection claims.                                 *)
(***************************************************************************)
CheckCalls == { c \in 1..Len(calls) : calls[c].kind = "checkAvailability" }

ReturnedFalse == Resolved([success |-> FALSE, error |-> NoError])

\* the step makes a new call
NewCall == Len(calls') = Len(calls) + 1

\* C11: once a checkAvailability call has returned false, every later
\* recordAudio call returns {success: false} without connecting or posting.
C11_ShortCircuitAfterFalse ==
    [][(/\ NewCall
        /\ calls'[Len(calls')].kind = "recordAudio"
        /\ \E k \in CheckCalls : calls[k].outcome = ReturnedFalse) =>
            LET new == calls'[Len(calls')]
            IN  /\ new.port = "none"
                /\ new.posted = <<>>
                /\ new.outcome.state = "resolved"
                /\ ~new.outcome.success]_vars

\* C12: every checkAvailability call eventually completes: a call that has
\* not completed yet still has its 60-second connection timer armed, so a
\* response, a transport error or that timer ends it.
C12_PendingCheckCanComplete ==
    \A c \in CheckCalls :
        calls[c].outcome.state = "pending" => calls[c].connTimer = "armed"

\* C13: after a checkAvailability call has completed, every later
\* checkAvailability call returns that call's value without connecting.
C13_LaterChecksReturnCached ==
    [][(NewCall /\ calls'[Len(calls')].kind = "checkAvailability") =>
          \A k \in CheckCalls :
              calls[k].outcome.state = "resolved" =>
                  LET new == calls'[Len(calls')]
                  IN  /\ new.port = "none"
                      /\ new.posted = <<>>
                      /\ new.outcome = calls[k].outcome]_vars

\* C14: under any interleaving at most one ping connection is ever opened.
C14_AtMostOneProbe ==
    Cardinality({ c \in CheckCalls : calls[c].posted # <<>> }) <= 1

\* C15: once the availability cache holds a boolean it never changes.
C15_CacheNeverChanges ==
    [][_isAvailable # "null" => _isAvailable' = _isAvailable]_vars

\* the check call sent a ping (the cache was null when it was made)
Probed(call) ==
    call.kind = "checkAvailability" /\ (call.posted # <<>> \/ call.send.state = "rejected")

\* C16: checkAvailability never rejects; a call that pinged returns true iff
\* the ping was answered with success = true, and a failure to connect, a
\* disconnect with an error, the 60-second timeout and a success = false
\* response each make it return false and set the cache to false.
C16_TrueIffPingSucceeded ==
    [][\A c \in 1..Len(calls') :
          LET new == calls'[c]
              pingOk == new.send.state = "resolved" /\ new.send.success
              settledNow == /\ Probed(new)
                            /\ new.send.state # "pending"
                            /\ (c > Len(calls) \/ calls[c].send.state = "pending")
          IN  new.kind = "checkAvailability" =>
                /\ new.outcome.state # "rejected"
                /\ settledNow =>
                      /\ new.outcome = Resolved([success |-> pingOk, error |-> NoError])
                      /\ _isAvailable' = IF pingOk THEN "true" ELSE "false"]_vars

\* a ping ran into the 60-second timeout: the call returned false, cached
C16_Witness ==
    \E c \in CheckCalls :
        /\ calls[c].send = Rejected(ResponseTimeout)
        /\ calls[c].outcome = ReturnedFalse
        /\ _isAvailable = "false"

\* the request a call is to post
ExpectedRequest(call) ==
    IF call.kind = "checkAvailability"
    THEN {[command |-> "ping", duration |-> 0, encodeMp3 |-> FALSE]}
    ELSE {[command |-> "record", duration |-> call.durationMs, encodeMp3 |-> b] : b \in BOOLEAN}

\* the call went through sendMessage
Sent(call) == call.kind = "recordAudio" \/ Probed(call)

\* C17, as claimed: every ping and every recordAudio call opens a connection
\* of its own and posts exactly one request on it.
C17_AlwaysOneConnection ==
    \A c \in 1..Len(calls) :
        Sent(calls[c]) =>
            /\ calls[c].port # "none"
            /\ Len(calls[c].posted) = 1
            /\ calls[c].posted[1] \in ExpectedRequest(calls[c])

\* C17, amended: every ping and every recordAudio call calls connectNative
\* once; when it returns a port the call posts exactly one request on it,
\* {command: "ping"} or {command: "record", duration: durationMs, encodeMp3};
\* when it throws, no connection is opened and nothing is posted.
C17_OneRequestPerConnection ==
    \A c \in 1..Len(calls) :
        Sent(calls[c]) =>
            IF calls[c].port = "none"
            THEN /\ calls[c].posted = <<>>
                 /\ \E e \in PlatformErrors : calls[c].send = Rejected(FailedToConnect(e))
            ELSE /\ Len(calls[c].posted) = 1
                 /\ calls[c].posted[1] \in ExpectedRequest(calls[c])

\* recordAudio(28000) posted duration 28000 while its race timer runs 30000
C17_Witness ==
    \E c \in RecordCalls :
        /\ calls[c].durationMs = 28000
        /\ calls[c].port = "open"
        /\ calls[c].posted[1].duration = 28000
        /\ calls[c].raceDelay = 30000

\* C18: on the first response the client clears the connection timer and
\* disconnects the port before the response is delivered, so the connection
\* timer never fires for a connection that received a response.
C18_ResponseCancelsTimer ==
    \A c \in 1..Len(calls) :
        /\ calls[c].send.state = "resolved" =>
              /\ calls[c].connTimer = "cleared"
              /\ calls[c].port = "disconnected"
              /\ calls[c].closedBy = "client"
        /\ calls[c].connTimer = "fired" => calls[c].send = Rejected(ResponseTimeout)

\* a call got its response, and more than 60 seconds have passed since
C18_Witness ==
    \E c \in RecordCalls :
        /\ calls[c].outcome.state = "resolved"
        /\ calls[c].outcome.success
        /\ calls[c].connTimer = "cleared"
        /\ now >= calls[c].startedAt + 60000

\* C19: a disconnect without a platform error is not reported as a failure:
\* it rejects nothing and changes neither the call's outcome nor the cache.
C19_QuietDisconnectNotFailure ==
    [][\A c \in 1..Len(calls) :
          /\ calls'[c].closedBy = "host" => calls'[c].send.state = "pending"
          /\ (calls[c].closedBy = "" /\ calls'[c].closedBy = "host") =>
                /\ calls'[c].send = calls[c].send
                /\ calls'[c].outcome = calls[c].outcome
                /\ _isAvailable' = _isAvailable]_vars

\* the host went away quietly during a recording: the call is still pending
C19_Witness ==
    \E c \in RecordCalls :
        /\ calls[c].closedBy = "host"
        /\ calls[c].outcome.state = "pending"
        /\ calls[c].raceTimer = "armed"

\* C20: at most one record request is in flight on a recorder at any time.
C20_OneRecordInFlight ==
    Cardinality({ c \in RecordCalls :
                    calls[c].port = "open" /\ calls[c].outcome.state = "pending" }) <= 1

(***************************************************************************)
(* The platform claims.                                                    *)
(***************************************************************************)
\* C21: the capture backend of the handlers' AudioRecorderService is the one
\* constructed when the background script loaded, of the kind the build flag
\* selects (Firefox build: FirefoxAudioRecorder, otherwise
\* OffscreenAudioRecorder); no later event, onStartup included, replaces it.
C21_BackendChosenOnce ==
    /\ audioRecorder.id = 1
    /\ isFirefoxBuild => audioRecorder.kind = "FirefoxAudioRecorder"
    /\ ~isFirefoxBuild => audioRecorder.kind = "OffscreenAudioRecorder"

\* onStartup has run and constructed a backend; the service kept the first
C21_Witness ==
    /\ startups >= 1
    /\ backendsConstructed >= 2
    /\ audioRecorder.id = 1

C30_ClickRespectsPermission ==
    (isFirefoxBuild /\ lastClick.effect \notin {"none", "popup"}) =>
        IF lastClick.held
        THEN lastClick.effect = "defaultAction"
        ELSE lastClick.effect \in {"requested", "requestedAndReloaded"}

(***************************************************************************)
(* The keyboard command claims.                                            *)
(***************************************************************************)
\* what a video element has been sent for the latest keyboard command
SentTo(videoElement) == { d \in lastCommand.toVideoElements : d.to = videoElement }

\* C22: for copy-subtitle, update-last-card, export-card,
\* copy-subtitle-with-dialog, take-screenshot and toggle-recording a
\* registered video element receives the derived command if and only if its
\* tab is one of the tabs the query reported; every other video element
\* receives nothing.
C22_VideoElementsOfActiveTabs ==
    lastCommand.command \in {"copy-subtitle", "update-last-card", "export-card",
                             "copy-subtitle-with-dialog", "take-screenshot",
                             "toggle-recording"} =>
        /\ \A d \in lastCommand.toVideoElements : d.to \in videoElements
        /\ \A ve \in videoElements :
              IF ve.tab \in lastCommand.tabs
              THEN /\ Cardinality(SentTo(ve)) = 1
                   /\ \A d \in SentTo(ve) :
                         /\ d.command.src = ve.src
                         /\ d.command.message.command =
                               IF lastCommand.command \in {"take-screenshot", "toggle-recording"}
                               THEN lastCommand.command ELSE "copy-subtitle"
              ELSE SentTo(ve) = {}

\* toggle-recording with one video element in the active tab and one in
\* another tab: the first received the command, the second nothing
C22_Witness ==
    /\ lastCommand.command = "toggle-recording"
    /\ \E ve1, ve2 \in videoElements :
          /\ ve1.tab \in lastCommand.tabs
          /\ ve2.tab \notin lastCommand.tabs
          /\ SentTo(ve1) # {}
          /\ SentTo(ve2) = {}

(***************************************************************************)
(* The outcome and timer claims of the recorder.                           *)
(***************************************************************************)
\* C24: a recordAudio call has one outcome, fixed by the first of response,
\* transport failure and race timer; what happens on the call afterwards
\* neither changes nor repeats it.
C24_OutcomeFixedByFirstEvent ==
    [][\A c \in RecordCalls :
          /\ calls[c].outcome.state # "pending" => calls'[c].outcome = calls[c].outcome
          /\ (calls[c].outcome.state = "pending" /\ calls'[c].outcome.state # "pending") =>
                calls'[c].outcome =
                    IF calls[c].send.state = "pending" /\ calls'[c].send.state # "pending"
                    THEN calls'[c].send
                    ELSE Resolved(TimedOutResponse)]_vars

\* the race timer fired first, and the response that came later was ignored
C24_Witness ==
    \E c \in RecordCalls :
        /\ calls[c].raceTimer = "fired"
        /\ calls[c].send.state = "resolved"
        /\ calls[c].send.success
        /\ calls[c].outcome = Resolved(TimedOutResponse)

\* C26: "Native host response timeout" is never the outcome of a recordAudio
\* call: the race timer fires before the connection timer, whatever the
\* duration.
C26_ConnectionTimeoutNeverObserved ==
    \A c \in RecordCalls :
        /\ calls[c].outcome # Rejected(ResponseTimeout)
        /\ calls[c].connTimer = "fired" =>
              /\ calls[c].raceTimer = "fired"
              /\ calls[c].outcome = Resolved(TimedOutResponse)

\* the connection timer of a recording fired, 60 seconds after the call
C26_Witness ==
    \E c \in RecordCalls :
        /\ calls[c].connTimer = "fired"
        /\ calls[c].send = Rejected(ResponseTimeout)
        /\ calls[c].outcome = Resolved(TimedOutResponse)

\* a ping that is on its way: sent, neither answered nor failed
InFlight(call) == call.port = "open" /\ call.send.state = "pending"

\* C27: the isAvailable getter is true only when some ping has been answered
\* with success true; it is false before any probe has completed, while a
\* probe is in flight, and after a failed probe.
C27_GetterTrueOnlyAfterSuccess ==
    /\ isAvailable =>
          \E c \in CheckCalls : calls[c].send.state = "resolved" /\ calls[c].send.success
    /\ (\A c \in CheckCalls : calls[c].outcome.state = "pending") => ~isAvailable
    /\ (\E c \in CheckCalls : InFlight(calls[c])) => ~isAvailable
    /\ (\E c \in CheckCalls : Probed(calls[c]) /\ calls[c].outcome = ReturnedFalse) => ~isAvailable

\* C25: every connection sendMessage opens is disconnected in the end, by
\* the client on the first response or when the 60-second timer fires, or by
\* the host; a record connection the race timeout has abandoned too, at the
\* latest 60 seconds after it was opened.
C25_EveryConnectionCloses ==
    /\ [](\A c \in 1..Len(calls) :
            calls[c].port = "open" =>
                /\ calls[c].connTimer = "armed"
                /\ now <= calls[c].startedAt + 60000)
    /\ \A c \in 1..MaxConnections :
          (Len(calls) >= c /\ calls[c].port = "open")
              ~> (/\ Len(calls) >= c
                  /\ calls[c].port = "disconnected"
                  /\ calls[c].closedBy \in {"client", "host", "hostError"})

\* the race timer gave the recording up and the connection timer closed the
\* port 60 seconds after the call
C25_Witness ==
    \E c \in RecordCalls :
        /\ calls[c].outcome = Resolved(TimedOutResponse)
        /\ calls[c].connTimer = "fired"
        /\ calls[c].port = "disconnected"
        /\ calls[c].closedBy = "client"
        /\ now = calls[c].startedAt + 60000

(***************************************************************************)
(* The context menu and response header claims.                            *)
(***************************************************************************)
\* C28: whatever the number and interleaving of setupContextMenus runs, no
\* menu id is created while a menu with that id exists, also when a run
\* starts while an earlier one is awaiting its removeAll.
C28_NoDuplicateCreate ==
    createErrors = {}

\* C29: on the Firefox build the headers the listener returns for a response
\* carry every content-security-policy header with a script-src directive
\* for the extension's origin appended to its value; a response without
\* responseHeaders is passed through unmodified.
C29_CspHeaderExtended ==
    IF lastResponse.hasHeaders
    THEN /\ lastResponse.blocking
         /\ Len(lastResponse.returned) = Len(lastResponse.responseHeaders)
         /\ \A i \in 1..Len(lastResponse.responseHeaders) :
               LET header == lastResponse.responseHeaders[i]
               IN  /\ lastResponse.returned[i].name = header.name
                   /\ lastResponse.returned[i].value =
                         IF header.name \in {"Content-Security-Policy",
                                             "content-security-policy",
                                             "CONTENT-SECURITY-POLICY"}
                         THEN header.value \o <<" ; script-src moz-extension://<runtime.id>">>
                         ELSE header.value
    ELSE ~lastResponse.blocking

(***************************************************************************)
(* The claims on what a keyboard command publishes.                        *)
(***************************************************************************)
\* the messages published for the latest keyboard command
PublishedMessages ==
    { d.command.message : d \in lastCommand.toVideoElements \cup lastCommand.toAsbplayers }

\* C31: for copy-subtitle, copy-subtitle-with-dialog, update-last-card and
\* export-card every published command is a copy-subtitle message whose
\* postMineAction is none, showAnkiDialog, updateLastCard and exportCard
\* respectively, the same for video elements and asbplayer instances.
C31_PostMineActionOfCommand ==
    \A pair \in {<<"copy-subtitle", "none">>,
                 <<"copy-subtitle-with-dialog", "showAnkiDialog">>,
                 <<"update-last-card", "updateLastCard">>,
                 <<"export-card", "exportCard">>} :
        lastCommand.command = pair[1] =>
            PublishedMessages \subseteq {[command |-> "copy-subtitle", postMineAction |-> pair[2]]}

\* export-card reached a video element and an asbplayer instance, both with
\* postMineAction exportCard
C31_Witness ==
    /\ lastCommand.command = "export-card"
    /\ \E d \in lastCommand.toVideoElements : d.command.message.postMineAction = "exportCard"
    /\ \E d \in lastCommand.toAsbplayers : d.command.message.postMineAction = "exportCard"

\* C32: a keyboard command outside copy-subtitle, update-last-card,
\* export-card, copy-subtitle-with-dialog, toggle-video-select,
\* take-screenshot and toggle-recording raises an 'Unknown command' error
\* and reaches no video element, asbplayer instance or tab.
C32_UnknownCommandThrows ==
    (/\ lastCommand.command # ""
     /\ lastCommand.command \notin
            {"copy-subtitle", "update-last-card", "export-card", "copy-subtitle-with-dialog",
             "toggle-video-select", "take-screenshot", "toggle-recording"}) =>
        /\ lastCommand.error = <<"Unknown command ", lastCommand.command>>
        /\ lastCommand.toVideoElements = {}
        /\ lastCommand.toAsbplayers = {}
        /\ lastCommand.toTabs = {}

\* an unknown command arrived while peers in the active tab were registered
C32_Witness ==
    /\ lastCommand.command = "open-settings"
    /\ lastCommand.error # <<>>
    /\ \E ve \in videoElements : ve.tab \in lastCommand.tabs
    /\ \E a \in asbplayers : ~a.sidePanel /\ a.tab = NoTab

\* what an asbplayer instance has been sent for the latest keyboard command
SentToAsbplayer(asbplayer) == { d \in lastCommand.toAsbplayers : d.to = asbplayer }

\* C33: for the copy-subtitle family, take-screenshot and toggle-recording an
\* asbplayer instance flagged as side panel receives nothing; one bound to a
\* tab receives the command only if that tab is among the tabs the query
\* reported; one with no tab and no side-panel flag always receives it.
C33_AsbplayerTargets ==
    lastCommand.command \in {"copy-subtitle", "update-last-card", "export-card",
                             "copy-subtitle-with-dialog", "take-screenshot",
                             "toggle-recording"} =>
        \A a \in asbplayers :
            /\ a.sidePanel => SentToAsbplayer(a) = {}
            /\ (a.tab # 0 /\ SentToAsbplayer(a) # {}) => a.tab \in lastCommand.tabs
            /\ (a.tab = 0 /\ ~a.sidePanel) => Cardinality(SentToAsbplayer(a)) = 1

\* take-screenshot with a side panel instance whose tab is active, an
\* instance in an inactive tab and an instance with no tab: only the last
\* received the command
C33_Witness ==
    /\ lastCommand.command = "take-screenshot"
    /\ \E sp, bound, free \in asbplayers :
          /\ sp.sidePanel /\ sp.tab \in lastCommand.tabs /\ SentToAsbplayer(sp) = {}
          /\ ~bound.sidePanel /\ bound.tab # 0 /\ bound.tab \notin lastCommand.tabs
          /\ SentToAsbplayer(bound) = {}
          /\ ~free.sidePanel /\ free.tab = 0 /\ SentToAsbplayer(free) # {}

(***************************************************************************)
(* The context-menu click claim.                                           *)
(***************************************************************************)
\* C34: a context-menu click delivers to the matching targets only:
\* load-subtitles sends toggle-video-select exactly to the tabs of registered
\* video elements whose url is the click's pageUrl; mine-subtitle sends
\* copy-subtitle with postMineAction showAnkiDialog exactly to the video
\* elements whose src is the click's srcUrl when srcUrl is defined, and
\* otherwise exactly to those whose tab url is pageUrl; any other menu id
\* publishes nothing.
C34_MenuClickTargets ==
    LET click == lastMenuClick
        tabsReached == { d.to : d \in click.toTabs }
        elementsReached == { d.to : d \in click.toVideoElements }
    IN  CASE click.menuItemId = "load-subtitles" ->
               /\ tabsReached = { ve.tab : ve \in { v \in videoElements :
                                                      tabUrl[v.tab] = click.pageUrl } }
               /\ \A d \in click.toTabs : d.command.message.command = "toggle-video-select"
               /\ click.toVideoElements = {}
          [] click.menuItemId = "mine-subtitle" ->
               /\ elementsReached =
                     IF click.hasSrcUrl
                     THEN { ve \in videoElements : ve.src = click.srcUrl }
                     ELSE { ve \in videoElements : tabUrl[ve.tab] = click.pageUrl }
               /\ \A d \in click.toVideoElements :
                     /\ d.command.message =
                           [command |-> "copy-subtitle", postMineAction |-> "showAnkiDialog"]
                     /\ d.command.src = d.to.src
               /\ click.toTabs = {}
          [] OTHER ->
               click.toTabs = {} /\ click.toVideoElements = {}

\* mine-subtitle on a video with a srcUrl: the element with that src in a
\* tab showing another page received copy-subtitle, an element of the
\* clicked page with another src received nothing
C34_Witness ==
    /\ lastMenuClick.menuItemId = "mine-subtitle"
    /\ lastMenuClick.hasSrcUrl
    /\ \E ve1, ve2 \in videoElements :
          /\ ve1.src = lastMenuClick.srcUrl
          /\ tabUrl[ve1.tab] # lastMenuClick.pageUrl
          /\ \E d \in lastMenuClick.toVideoElements : d.to = ve1
          /\ ve2.src # lastMenuClick.srcUrl
          /\ tabUrl[ve2.tab] = lastMenuClick.pageUrl
          /\ \A d \in lastMenuClick.toVideoElements : d.to # ve2

====
